---- MODULE Spec2Model ----
(***************************************************************************)
(* Model of the OpenXR API layer dispatch framework emitted by             *)
(* framework/dispatch_generator.py from the configuration in               *)
(* framework/layer_apis.py: the configuration sanity checks, the generated *)
(* OpenXrApi class (xrGetInstanceProcAddrInternal, xrCreateInstance,       *)
(* xrDestroyInstance, xrEnumerateInstanceExtensionProperties), the         *)
(* generated entry wrappers and the g_instance singleton.                  *)
(***************************************************************************)
EXTENDS Integers, Sequences, FiniteSets, TLC

\* ------------------------------------------------------------------------
\* Bounds of the model
\* ------------------------------------------------------------------------
\* Largest number of extensions the real runtime enumerates.
MaxRealExts == 2
\* Extra buffer slots a caller may supply beyond what the call needs.
MaxSlack == 1
\* How deep the real runtime's destroy function may call back into the
\* layer's xrDestroyInstance.
MaxReentry == 1

\* ------------------------------------------------------------------------
\* XrResult codes used by the generated code (XR_FAILED(r) is r < 0)
\* ------------------------------------------------------------------------
XR_SUCCESS == 0
XR_ERROR_VALIDATION_FAILURE == -1
XR_ERROR_RUNTIME_FAILURE == -2
XR_ERROR_FUNCTION_UNSUPPORTED == -7
XR_ERROR_SIZE_INSUFFICIENT == -11

XR_FAILED(result) == result < 0
XR_SUCCEEDED(result) == result >= 0

\* ------------------------------------------------------------------------
\* The command registry as the generator sees it (self.core_commands and
\* self.ext_commands): name, return type, owning extension ("" for core).
\* xrNoResultEXT stands for a command without a return type, the case the
\* generator handles with its second wrapper template (no command of the
\* OpenXR registry is one).
\* ------------------------------------------------------------------------
Cmd(n, rt, ext) == [name |-> n, return_type |-> rt, extension |-> ext]

core_commands ==
    << Cmd("xrGetInstanceProcAddr", "XrResult", ""),
       Cmd("xrEnumerateInstanceExtensionProperties", "XrResult", ""),
       Cmd("xrCreateInstance", "XrResult", ""),
       Cmd("xrDestroyInstance", "XrResult", ""),
       Cmd("xrGetInstanceProperties", "XrResult", ""),
       Cmd("xrGetSystem", "XrResult", "") >>

registry_ext_commands ==
    << Cmd("xrGetVisibilityMaskKHR", "XrResult", "XR_KHR_visibility_mask"),
       Cmd("xrCreateEyeTrackerFB", "XrResult", "XR_FB_eye_tracking_social"),
       Cmd("xrGetEyeGazesFB", "XrResult", "XR_FB_eye_tracking_social"),
       Cmd("xrNoResultEXT", "None", "XR_EXT_no_result") >>

SeqToSet(s) == { s[i] : i \in 1..Len(s) }
NamesOf(cmds) == { cmds[i].name : i \in 1..Len(cmds) }

\* emitExtensions = makeREstring(layer_apis.extensions): only the commands of
\* the listed extensions are emitted.
IsEmitted(c, exts) == c.extension \in exts
ext_commands(exts) == SelectSeq(registry_ext_commands, LAMBDA c : IsEmitted(c, exts))

Names == NamesOf(core_commands) \cup NamesOf(registry_ext_commands)

\* ------------------------------------------------------------------------
\* Function pointers: the real runtime's function for a name, the layer's
\* generated wrapper openxr_api_layer::<name>, and nullptr.
\* ------------------------------------------------------------------------
NULL == <<"nullptr", "">>
RuntimeFunction(name) == <<"runtime", name>>
LayerWrapper(name) == <<"openxr_api_layer", name>>

\* ------------------------------------------------------------------------
\* Configuration (layer_apis.py) and the generator's sanity checks
\* ------------------------------------------------------------------------
\* The two shipped configurations, as written in the repository.
ShippedOverride ==
    { "xrGetSystem", "xrGetSystemProperties", "xrEnumerateViewConfigurations",
      "xrGetViewConfigurationProperties", "xrEnumerateViewConfigurationViews",
      "xrEnumerateEnvironmentBlendModes", "xrCreateReferenceSpace", "xrDestroySpace",
      "xrCreateSession", "xrDestroySession", "xrBeginSession",
      "xrAttachSessionActionSets", "xrCreateSwapchain", "xrDestroySwapchain",
      "xrAcquireSwapchainImage", "xrReleaseSwapchainImage", "xrLocateViews",
      "xrLocateSpace", "xrWaitFrame", "xrBeginFrame", "xrEndFrame", "xrPollEvent",
      "xrSyncActions", "xrGetVisibilityMaskKHR" }
ShippedRequested ==
    { "xrGetInstanceProperties", "xrGetSystem", "xrGetSystemProperties",
      "xrCreateReferenceSpace", "xrDestroySpace", "xrCreateSwapchain",
      "xrDestroySwapchain", "xrEnumerateSwapchainImages", "xrAcquireSwapchainImage",
      "xrWaitSwapchainImage", "xrReleaseSwapchainImage", "xrPathToString",
      "xrStringToPath", "xrCreateActionSet", "xrCreateAction",
      "xrSuggestInteractionProfileBindings", "xrCreateActionSpace", "xrLocateViews",
      "xrWaitFrame", "xrBeginFrame", "xrGetActionStatePose", "xrSyncActions",
      "xrCreateEyeTrackerFB", "xrGetEyeGazesFB" }
TemplateOverride == { "xrGetSystem", "xrCreateSession" }
TemplateRequested == { "xrGetInstanceProperties", "xrGetSystemProperties" }

\* The names the first loop of the sanity checks goes over.
ImplicitlyOverridden ==
    << "xrCreateInstance", "xrDestroyInstance", "xrEnumerateInstanceExtensionProperties" >>

\* Mutation: the loop checks override_functions only.
ImplicitCheckRaises_OverrideOnly(func, override, requested) ==
    func \in override

\* One iteration of the loop: either membership raises.
ImplicitCheckRaises(func, override, requested) ==
    \/ func \in override
    \/ func \in requested

\* The two checks on xrGetInstanceProcAddr after the loop.
ProcAddrCheckRaises(override, requested) ==
    \/ "xrGetInstanceProcAddr" \in override
    \/ "xrGetInstanceProcAddr" \in requested

\* TRUE when the module-level checks raise no exception.
SanityChecks(override, requested) ==
    /\ \A i \in 1..Len(ImplicitlyOverridden) :
          ~ImplicitCheckRaises(ImplicitlyOverridden[i], override, requested)
    /\ ~ProcAddrCheckRaises(override, requested)

\* ------------------------------------------------------------------------
\* What the generator emits for a configuration
\* ------------------------------------------------------------------------
\* genWrappers: one wrapper per emitted command named in override_functions
\* or one of the two implicitly wrapped commands.
WrappedCommands(override, exts) ==
    SelectSeq(core_commands \o ext_commands(exts),
              LAMBDA c : c.name \in (override \cup
                  {"xrDestroyInstance", "xrEnumerateInstanceExtensionProperties"}))

\* Mutation: a branch for every core command, whatever the configuration.
CoreBranches_All(override) == core_commands

\* genGetInstanceProcAddr: the else-if branches for core commands ...
CoreBranches(override) ==
    SelectSeq(core_commands,
              LAMBDA c : c.name \in (override \cup {"xrEnumerateInstanceExtensionProperties"}))
\* ... and for extension commands (which also force the result to XR_SUCCESS).
ExtBranches(override, exts) ==
    SelectSeq(ext_commands(exts), LAMBDA c : c.name \in override)

\* Mutation: the extension commands are resolved with the throwing check too.
RequiredBindings_WithExtensions(requested) ==
    SelectSeq(core_commands \o registry_ext_commands, LAMBDA c : c.name \in requested)

\* The template for commands without a return type ends with
\* TraceLoggingWriteStop(local, "<name>")); one closing parenthesis too many:
\* a dispatch.gen.cpp holding such a wrapper is refused by the compiler.
WrappersCompile(override, exts) ==
    \A c \in SeqToSet(WrappedCommands(override, exts)) : c.return_type # "None"

\* genCreateInstance: the core commands resolved with a throw on failure ...
RequiredBindings(requested) ==
    SelectSeq(core_commands, LAMBDA c : c.name \in requested)
\* ... and the extension commands resolved without a check.
OptionalBindings(requested, exts) ==
    SelectSeq(ext_commands(exts), LAMBDA c : c.name \in requested)

\* A Python list holding each name of a set once.
RECURSIVE SetToSeq(_)
SetToSeq(S) ==
    IF S = {} THEN << >>
    ELSE LET x == CHOOSE y \in S : TRUE IN << x >> \o SetToSeq(S \ {x})

\* layer_apis.override_functions + layer_apis.requested_functions: a name of
\* both lists occurs twice in the concatenation.
ConcatenatedLists(override, requested) == SetToSeq(override) \o SetToSeq(requested)

\* Mutation: one virtual method and member per entry of the concatenated
\* lists that names an emitted command.
VirtualMethods_PerListEntry(override, requested, exts) ==
    LET emitted == core_commands \o ext_commands(exts)
        entries == SelectSeq(ConcatenatedLists(override, requested),
                             LAMBDA n : n \in NamesOf(emitted))
    IN  [i \in 1..Len(entries) |->
            CHOOSE c \in SeqToSet(emitted) : c.name = entries[i]]

\* genVirtualMethods: the commands that get a virtual method and a m_<name>
\* member (list(set(override_functions + requested_functions))).
commands_to_include(override, requested) ==
    SeqToSet(ConcatenatedLists(override, requested))
VirtualMethods(override, requested, exts) ==
    SelectSeq(core_commands \o ext_commands(exts),
              LAMBDA c : c.name \in commands_to_include(override, requested))

\* ------------------------------------------------------------------------
\* State
\* ------------------------------------------------------------------------
VARIABLES
    override_functions,   \* layer_apis.override_functions
    requested_functions,  \* layer_apis.requested_functions
    extensions,           \* layer_apis.extensions
    generated,            \* "pending" | "rejected" | "uncompilable" | "generated"
    runtimeResolves,      \* names the real runtime's resolver knows
    realExtCount,         \* number of extensions the real runtime enumerates
    g_instance,           \* the singleton slot (std::unique_ptr<OpenXrApi>)
    pc,                   \* position inside OpenXrApi::xrDestroyInstance
    finalDestroyInstance, \* the local of the destroy call in progress
    destroySteps,         \* what the latest destroy call has done so far
    hostCount,            \* count the host got from its last zero-capacity enumeration (-1: none)
    last,                 \* what the host observed from its last call
    trace,                \* trace events written by the last wrapper call
    errorLog,             \* ErrorLog records written by the last wrapper call
    liveObjects,          \* OpenXrApi objects constructed and not yet destroyed
    stack,                \* suspended xrDestroyInstance frames (re-entrant calls)
    creationFailed,       \* the last creation attempt failed and no new one has begun
    obtained              \* names whose wrapper the host got from resolve on the live object

vars == << override_functions, requested_functions, extensions, generated,
           runtimeResolves, realExtCount, g_instance, pc, finalDestroyInstance,
           destroySteps, hostCount, last, trace, errorLog, liveObjects, stack,
           creationFailed, obtained >>

config == << override_functions, requested_functions, extensions >>
environment == << runtimeResolves, realExtCount >>

\* ------------------------------------------------------------------------
\* The OpenXrApi object and the singleton slot
\* ------------------------------------------------------------------------
\* Default member initializers of a newly constructed OpenXrApi.
NewOpenXrApi ==
    [ live |-> TRUE,
      m_instance |-> "XR_NULL_HANDLE",
      m_applicationName |-> "",
      m_xrGetInstanceProcAddr |-> FALSE,
      m |-> [n \in Names |-> NULL] ]

\* g_instance after std::unique_ptr::reset(): no object.
EmptySlot == [NewOpenXrApi EXCEPT !.live = FALSE]

\* Mutation: the object is destroyed but the slot keeps pointing at it.
ResetInstance_KeepSlot(slot) == slot

\* void ResetInstance() { g_instance.reset(); }
ResetInstance(slot) == EmptySlot

\* GetInstance(): the object in the slot, constructed on first access.
GetInstance(slot) == IF slot.live THEN slot ELSE NewOpenXrApi

\* How many objects GetInstance() constructs and ResetInstance() destroys
\* when applied to a slot.
Constructs(slot) == IF slot.live THEN 0 ELSE 1
Destroys(slot) == IF slot.live THEN 1 ELSE 0

\* SetGetInstanceProcAddr(pfn, instance)
SetGetInstanceProcAddr(self, instance) ==
    [self EXCEPT !.m_xrGetInstanceProcAddr = TRUE, !.m_instance = instance]

\* The real runtime's xrGetInstanceProcAddr (held in m_xrGetInstanceProcAddr).
RealGetInstanceProcAddr(resolves, name) ==
    IF name \in resolves
    THEN [result |-> XR_SUCCESS, function |-> RuntimeFunction(name)]
    ELSE [result |-> XR_ERROR_FUNCTION_UNSUPPORTED, function |-> NULL]

\* ------------------------------------------------------------------------
\* OpenXrApi::xrGetInstanceProcAddrInternal
\* ------------------------------------------------------------------------
\* Mutation: extension commands take the branch generated for core commands.
ResolveBranch_ExtAsCore(override, exts, apiName) ==
    IF apiName = "xrDestroyInstance" THEN "destroy"
    ELSE IF apiName \in NamesOf(CoreBranches(override)) \cup NamesOf(ExtBranches(override, exts))
    THEN "core"
    ELSE "none"

\* The branch of the generated if / else-if chain that a name takes.
ResolveBranch(override, exts, apiName) ==
    IF apiName = "xrDestroyInstance" THEN "destroy"
    ELSE IF apiName \in NamesOf(CoreBranches(override)) THEN "core"
    ELSE IF apiName \in NamesOf(ExtBranches(override, exts)) THEN "ext"
    ELSE "none"

\* Mutation: the wrapper is substituted only when the real resolver succeeded.
xrGetInstanceProcAddrInternal_OnSuccess(self, override, exts, resolves, name) ==
    LET real == RealGetInstanceProcAddr(resolves, name)
        branch == ResolveBranch(override, exts, name)
    IN  IF branch = "none" \/ XR_FAILED(real.result)
        THEN [self |-> self, result |-> real.result, function |-> real.function]
        ELSE [self |-> [self EXCEPT !.m[name] = real.function],
              result |-> IF branch = "ext" THEN XR_SUCCESS ELSE real.result,
              function |-> LayerWrapper(name)]

\* Mutation: the wrapper is substituted without storing the real pointer.
xrGetInstanceProcAddrInternal_NoCapture(self, override, exts, resolves, name) ==
    LET real == RealGetInstanceProcAddr(resolves, name)
        branch == ResolveBranch(override, exts, name)
    IN  IF branch = "none"
        THEN [self |-> self, result |-> real.result, function |-> real.function]
        ELSE [self |-> self,
              result |-> IF branch = "ext" THEN XR_SUCCESS ELSE real.result,
              function |-> LayerWrapper(name)]

\* Mutation: the real pointer is stored in the name's member on every path.
xrGetInstanceProcAddrInternal_CaptureAll(self, override, exts, resolves, name) ==
    LET real == RealGetInstanceProcAddr(resolves, name)
        branch == ResolveBranch(override, exts, name)
    IN  [self |-> [self EXCEPT !.m[name] = real.function],
         result |-> IF branch = "ext" THEN XR_SUCCESS
                    ELSE real.result,
         function |-> IF branch = "none" THEN real.function ELSE LayerWrapper(name)]

\* Returns the object after the call, the result code and *function.
xrGetInstanceProcAddrInternal(self, override, exts, resolves, name) ==
    LET real == RealGetInstanceProcAddr(resolves, name)
        branch == ResolveBranch(override, exts, name)
    IN  IF branch = "none"
        THEN [self |-> self, result |-> real.result, function |-> real.function]
        ELSE [self |-> [self EXCEPT !.m[name] = real.function],
              result |-> IF branch = "ext" THEN XR_SUCCESS ELSE real.result,
              function |-> LayerWrapper(name)]

\* ------------------------------------------------------------------------
\* OpenXrApi::xrCreateInstance
\* ------------------------------------------------------------------------
\* Mutation: the result of resolving a core command is not checked.
RECURSIVE ResolveOptional(_, _, _, _)
ResolveRequired_Unchecked(self, resolves, cmds, i) ==
    [self |-> ResolveOptional(self, resolves, cmds, i), thrown |-> FALSE]

\* Resolving the core commands of requested_functions in order; stops at the
\* first failure, which throws std::runtime_error.
RECURSIVE ResolveRequired(_, _, _, _)
ResolveRequired(self, resolves, cmds, i) ==
    IF i > Len(cmds) THEN [self |-> self, thrown |-> FALSE]
    ELSE LET real == RealGetInstanceProcAddr(resolves, cmds[i].name)
             next == [self EXCEPT !.m[cmds[i].name] = real.function]
         IN  IF XR_FAILED(real.result)
             THEN [self |-> next, thrown |-> TRUE]
             ELSE ResolveRequired(next, resolves, cmds, i + 1)

\* Resolving the extension commands of requested_functions: result ignored.
ResolveOptional(self, resolves, cmds, i) ==
    IF i > Len(cmds) THEN self
    ELSE LET real == RealGetInstanceProcAddr(resolves, cmds[i].name)
         IN  ResolveOptional([self EXCEPT !.m[cmds[i].name] = real.function],
                             resolves, cmds, i + 1)

xrCreateInstance(self, requested, exts, resolves, applicationName) ==
    LET core == ResolveRequired(self, resolves, RequiredBindings(requested), 1)
    IN  IF core.thrown
        THEN [self |-> core.self, thrown |-> TRUE, result |-> XR_ERROR_RUNTIME_FAILURE]
        ELSE [self |-> [ResolveOptional(core.self, resolves,
                                        OptionalBindings(requested, exts), 1)
                            EXCEPT !.m_applicationName = applicationName],
              thrown |-> FALSE, result |-> XR_SUCCESS]

\* The creation entry point around it: a thrown creation is reported as a
\* failure and the singleton is released; otherwise the object stays published.
CreateInstanceEntry(slot, requested, exts, resolves, applicationName) ==
    LET r == xrCreateInstance(GetInstance(slot), requested, exts, resolves, applicationName)
    IN  IF r.thrown
        THEN [slot |-> ResetInstance(r.self), result |-> XR_ERROR_RUNTIME_FAILURE]
        ELSE [slot |-> r.self, result |-> r.result]

\* ------------------------------------------------------------------------
\* The generated entry wrappers (genWrappers)
\* ------------------------------------------------------------------------
\* What the dispatched call GetInstance()-><name>(...) can do: return a
\* result, throw an exception derived from std::exception, throw anything
\* else, or call through a null m_<name> (undefined behaviour, "crash").
Returned(result) == [kind |-> "return", result |-> result]
ThrowStd == [kind |-> "throw_std", result |-> XR_SUCCESS]
ThrowOther == [kind |-> "throw_other", result |-> XR_SUCCESS]
Crash == [kind |-> "crash", result |-> XR_SUCCESS]

RuntimeResults == { XR_SUCCESS, XR_ERROR_RUNTIME_FAILURE, XR_ERROR_VALIDATION_FAILURE }

\* Mutation: the forwarded call returns whatever the member holds.
DefaultVirtualMethod_Unchecked(self, name, realResult) == Returned(realResult)

\* genVirtualMethods: the default virtual method forwards to m_<name>.
DefaultVirtualMethod(self, name, realResult) ==
    IF self.m[name] = NULL THEN Crash ELSE Returned(realResult)

\* catch (std::exception& exc)
CatchClauseMatches(dispatched) == dispatched.kind = "throw_std"

TraceStart(name) == << "Start", name >>
TraceError(name) == << "Error", name >>
TraceStop(name) == << "Stop", name >>
LogException(name) == << "exception", name >>
LogFailed(name) == << "failed", name >>

\* Mutation: a caught exception is logged once, by the catch block only.
ResultWrapper_LogOnce(name, dispatched) ==
    IF dispatched.kind = "crash"
    THEN [outcome |-> "crash", result |-> XR_SUCCESS,
          trace |-> << TraceStart(name) >>, errorLog |-> << >>]
    ELSE IF dispatched.kind = "return"
    THEN [outcome |-> "returned", result |-> dispatched.result,
          trace |-> << TraceStart(name), TraceStop(name) >>,
          errorLog |-> IF XR_FAILED(dispatched.result)
                       THEN << LogFailed(name) >> ELSE << >>]
    ELSE IF CatchClauseMatches(dispatched)
    THEN [outcome |-> "returned", result |-> XR_ERROR_RUNTIME_FAILURE,
          trace |-> << TraceStart(name), TraceError(name), TraceStop(name) >>,
          errorLog |-> << LogException(name) >>]
    ELSE [outcome |-> "escaped", result |-> XR_SUCCESS,
          trace |-> << TraceStart(name) >>, errorLog |-> << >>]

\* Wrapper of a command with a return type.
ResultWrapper(name, dispatched) ==
    IF dispatched.kind = "crash"
    THEN [outcome |-> "crash", result |-> XR_SUCCESS,
          trace |-> << TraceStart(name) >>, errorLog |-> << >>]
    ELSE IF dispatched.kind = "return"
    THEN [outcome |-> "returned", result |-> dispatched.result,
          trace |-> << TraceStart(name), TraceStop(name) >>,
          errorLog |-> IF XR_FAILED(dispatched.result)
                       THEN << LogFailed(name) >> ELSE << >>]
    ELSE IF CatchClauseMatches(dispatched)
    THEN [outcome |-> "returned", result |-> XR_ERROR_RUNTIME_FAILURE,
          trace |-> << TraceStart(name), TraceError(name), TraceStop(name) >>,
          errorLog |-> << LogException(name) >> \o
                       (IF XR_FAILED(XR_ERROR_RUNTIME_FAILURE)
                        THEN << LogFailed(name) >> ELSE << >>)]
    ELSE [outcome |-> "escaped", result |-> XR_SUCCESS,
          trace |-> << TraceStart(name) >>, errorLog |-> << >>]

\* The wrapper of a command: every wrapper that exists is one written by
\* the result-returning template (see WrappersCompile).
Wrapper(cmd, dispatched) == ResultWrapper(cmd.name, dispatched)

CommandNamed(cmds, name) == CHOOSE c \in SeqToSet(cmds) : c.name = name

\* ------------------------------------------------------------------------
\* OpenXrApi::xrEnumerateInstanceExtensionProperties
\* ------------------------------------------------------------------------
LAYER_NAME == "XR_APILAYER_layer"
OTHER_LAYER_NAME == "XR_APILAYER_other"
NO_LAYER_NAME == "nullptr"
LayerNames == { NO_LAYER_NAME, LAYER_NAME, OTHER_LAYER_NAME }

XR_TYPE_EXTENSION_PROPERTIES == "XR_TYPE_EXTENSION_PROPERTIES"
XR_TYPE_UNKNOWN == "XR_TYPE_UNKNOWN"

\* The static list of (name, version) the layer advertises.
advertisedExtensions ==
    << << "XR_VARJO_quad_views", 1 >>, << "XR_VARJO_foveated_rendering", 3 >> >>

\* A caller's record before the call, and a record the real runtime wrote.
BlankProperties(type) ==
    [type |-> type, extensionName |-> "", extensionVersion |-> 0]
RuntimeProperties(i) ==
    [type |-> XR_TYPE_EXTENSION_PROPERTIES,
     extensionName |-> << "runtime_extension", i >>, extensionVersion |-> 1]

\* The caller's buffer: capacity records, all of the expected type except
\* the one at position badSlot (1-based; 0 for none).
CallerBuffer(capacity, badSlot) ==
    [i \in 1..capacity |->
        BlankProperties(IF i = badSlot THEN XR_TYPE_UNKNOWN ELSE XR_TYPE_EXTENSION_PROPERTIES)]

\* The real runtime's enumerate function, following the two-call idiom.
RealEnumerate(capacity, count, properties, n, fails) ==
    IF fails
    THEN [result |-> XR_ERROR_RUNTIME_FAILURE, count |-> count, properties |-> properties]
    ELSE IF capacity = 0
    THEN [result |-> XR_SUCCESS, count |-> n, properties |-> properties]
    ELSE IF capacity < n
    THEN [result |-> XR_ERROR_SIZE_INSUFFICIENT, count |-> n, properties |-> properties]
    ELSE IF \E i \in 1..n : properties[i].type # XR_TYPE_EXTENSION_PROPERTIES
    THEN [result |-> XR_ERROR_VALIDATION_FAILURE, count |-> n, properties |-> properties]
    ELSE [result |-> XR_SUCCESS, count |-> n,
          properties |-> [i \in 1..Len(properties) |->
                              IF i <= n THEN RuntimeProperties(i) ELSE properties[i]]]

\* if (!layerName || std::string_view(layerName) != LAYER_NAME)
CallsRuntimeEnumerate(layerName) ==
    layerName = NO_LAYER_NAME \/ layerName # LAYER_NAME

\* Mutation: the layer's list is appended whatever the filter.
AppendsLayerExtensions_Always(layerName) == TRUE

\* if (!layerName || std::string_view(layerName) == LAYER_NAME)
AppendsLayerExtensions(layerName) ==
    layerName = NO_LAYER_NAME \/ layerName = LAYER_NAME

\* The for loop writing the layer's descriptors: i is the 0-based C index.
RECURSIVE WriteAdvertised(_, _, _, _)
WriteAdvertised(properties, baseOffset, count, i) ==
    IF ~(i < count)
    THEN [result |-> XR_SUCCESS, properties |-> properties]
    ELSE IF properties[i + 1].type # XR_TYPE_EXTENSION_PROPERTIES
    THEN [result |-> XR_ERROR_VALIDATION_FAILURE, properties |-> properties]
    ELSE WriteAdvertised(
            [properties EXCEPT
                ![i + 1].extensionName = advertisedExtensions[i - baseOffset + 1][1],
                ![i + 1].extensionVersion = advertisedExtensions[i - baseOffset + 1][2]],
            baseOffset, count, i + 1)

\* Mutation: a capacity equal to the count is refused too.
CapacityTooSmall_OrEqual(capacity, count) == capacity <= count

\* if (propertyCapacityInput < *propertyCountOutput)
CapacityTooSmall(capacity, count) == capacity < count

\* Mutation: the count is raised only once the capacity check has passed.
AppendAdvertised_CountAfterCheck(capacity, baseOffset, properties, result) ==
    LET count == baseOffset + Len(advertisedExtensions)
    IN  IF capacity = 0
        THEN [result |-> result, count |-> count, properties |-> properties]
        ELSE IF capacity < count
        THEN [result |-> XR_ERROR_SIZE_INSUFFICIENT, count |-> baseOffset,
              properties |-> properties]
        ELSE LET w == WriteAdvertised(properties, baseOffset, count, baseOffset)
             IN  [result |-> w.result, count |-> count, properties |-> w.properties]

\* The block run when the real call succeeded and the filter admits the layer.
\* (The uint32_t addition cannot wrap for the counts modelled here.)
AppendAdvertised(capacity, baseOffset, properties, result) ==
    LET count == baseOffset + Len(advertisedExtensions)
    IN  IF capacity = 0
        THEN [result |-> result, count |-> count, properties |-> properties]
        ELSE IF CapacityTooSmall(capacity, count)
        THEN [result |-> XR_ERROR_SIZE_INSUFFICIENT, count |-> count,
              properties |-> properties]
        ELSE LET w == WriteAdvertised(properties, baseOffset, count, baseOffset)
             IN  [result |-> w.result, count |-> count, properties |-> w.properties]

\* The whole method. count is the caller's *propertyCountOutput before the
\* call; n and fails describe the real runtime.
xrEnumerateInstanceExtensionProperties(layerName, capacity, count, properties, n, fails) ==
    LET real == IF CallsRuntimeEnumerate(layerName)
                THEN RealEnumerate(capacity, count, properties, n, fails)
                ELSE [result |-> XR_ERROR_RUNTIME_FAILURE, count |-> count,
                      properties |-> properties]
    IN  IF XR_SUCCEEDED(real.result) /\ AppendsLayerExtensions(layerName)
        THEN AppendAdvertised(capacity, real.count, real.properties, real.result)
        ELSE real

\* ------------------------------------------------------------------------
\* OpenXrApi::xrDestroyInstance
\* ------------------------------------------------------------------------
\* Mutation: the real runtime's function is called before the reset.
DestroyBody_ResetLast == << "capture", "invoke", "reset" >>

\* The statements of the method body, in program order.
DestroyBody == << "capture", "reset", "invoke" >>

\* What the last statement calls: the local copy, not the member.
DestroyCallee(local, slot) == [source |-> "finalDestroyInstance", function |-> local]

\* ------------------------------------------------------------------------
\* Initial states
\* ------------------------------------------------------------------------
Config(o, r, e) == [override |-> o, requested |-> r, extensions |-> e]

\* The shipped configurations cut down to the model's registry, a
\* configuration overriding a command of an extension it does not list, and
\* one overriding a command without a return type.
BaseConfigs ==
    { Config({"xrGetSystem", "xrGetVisibilityMaskKHR"},
             {"xrGetInstanceProperties", "xrGetSystem", "xrCreateEyeTrackerFB",
              "xrGetEyeGazesFB"},
             {"XR_KHR_visibility_mask", "XR_FB_eye_tracking_social"}),
      Config({"xrGetSystem"}, {"xrGetInstanceProperties"}, {}),
      Config({"xrGetVisibilityMaskKHR"}, {"xrGetInstanceProperties"}, {}),
      Config({"xrNoResultEXT"}, {}, {"XR_EXT_no_result"}) }

SpecialNames ==
    { "xrCreateInstance", "xrDestroyInstance", "xrGetInstanceProcAddr",
      "xrEnumerateInstanceExtensionProperties" }

\* Real runtimes, each with the names it resolves and the number of
\* extensions it enumerates: one that resolves everything, one that lacks a
\* core command (overridden and requested in the shipped layer) and the
\* extension commands, one that lacks a requested extension command.
RuntimeVariants ==
    { [resolves |-> Names, extCount |-> MaxRealExts],
      [resolves |-> NamesOf(core_commands) \ {"xrGetSystem"}, extCount |-> 0],
      [resolves |-> Names \ {"xrCreateEyeTrackerFB"}, extCount |-> 1] }

NoCall ==
    [ op |-> "none", name |-> "", outcome |-> "none", result |-> XR_SUCCESS,
      function |-> NULL, real |-> [result |-> XR_SUCCESS, function |-> NULL],
      dispatched |-> "none", layerName |-> NO_LAYER_NAME, capacity |-> 0,
      badSlot |-> 0, count |-> 0, properties |-> << >>,
      realFails |-> FALSE, previous |-> NULL,
      slotBefore |-> FALSE, selfBefore |-> EmptySlot, logic |-> "none" ]

Init ==
    /\ \E b \in BaseConfigs, so \in SUBSET SpecialNames, sr \in SUBSET SpecialNames :
          /\ override_functions = b.override \cup so
          /\ requested_functions = b.requested \cup sr
          /\ extensions = b.extensions
    /\ generated = "pending"
    /\ \E runtime \in RuntimeVariants :
          /\ runtimeResolves = runtime.resolves
          /\ realExtCount = runtime.extCount
    /\ g_instance = EmptySlot
    /\ pc = 0
    /\ finalDestroyInstance = NULL
    /\ destroySteps = << >>
    /\ hostCount = -1
    /\ last = NoCall
    /\ trace = << >>
    /\ errorLog = << >>
    /\ liveObjects = 0
    /\ stack = << >>
    /\ creationFailed = FALSE
    /\ obtained = {}

\* ------------------------------------------------------------------------
\* Actions
\* ------------------------------------------------------------------------
\* Running dispatch_generator.py and building what it wrote: the sanity
\* checks, then generation, then the compiler.
RunGenerator ==
    /\ generated = "pending"
    /\ generated' = IF ~SanityChecks(override_functions, requested_functions)
                    THEN "rejected"
                    ELSE IF ~WrappersCompile(override_functions, extensions)
                    THEN "uncompilable"
                    ELSE "generated"
    /\ UNCHANGED << config, environment, g_instance, pc, finalDestroyInstance,
                    destroySteps, hostCount, last, trace, errorLog, liveObjects,
                    stack, creationFailed, obtained >>

Idle == generated = "generated" /\ pc = 0 /\ stack = << >>

\* The loader hands the layer the next xrGetInstanceProcAddr and the instance.
HostSetGetInstanceProcAddr ==
    /\ Idle
    /\ ~GetInstance(g_instance).m_xrGetInstanceProcAddr
    /\ g_instance' = SetGetInstanceProcAddr(GetInstance(g_instance), "instance")
    /\ last' = [NoCall EXCEPT !.op = "set", !.slotBefore = g_instance.live]
    /\ trace' = << >>
    /\ errorLog' = << >>
    /\ liveObjects' = liveObjects + Constructs(g_instance)
    /\ creationFailed' = FALSE
    /\ destroySteps' = << >>
    /\ UNCHANGED << config, generated, environment, pc, finalDestroyInstance,
                    hostCount, stack, obtained >>

\* The host creates the instance.
HostCreateInstance ==
    /\ Idle
    /\ GetInstance(g_instance).m_xrGetInstanceProcAddr
    /\ \E r \in { CreateInstanceEntry(g_instance, requested_functions, extensions,
                                      runtimeResolves, "app") } :
           /\ g_instance' = r.slot
           /\ last' = [NoCall EXCEPT !.op = "create", !.result = r.result,
                                     !.slotBefore = g_instance.live]
           /\ liveObjects' = liveObjects + Constructs(g_instance)
                                 - (IF XR_FAILED(r.result) THEN 1 ELSE 0)
           /\ creationFailed' = XR_FAILED(r.result)
           /\ obtained' = IF XR_FAILED(r.result) THEN {} ELSE obtained
    /\ trace' = << >>
    /\ errorLog' = << >>
    /\ destroySteps' = << >>
    /\ UNCHANGED << config, generated, environment, pc, finalDestroyInstance,
                    hostCount, stack >>

\* The host resolves a name through the layer.
HostResolve ==
    /\ Idle
    /\ GetInstance(g_instance).m_xrGetInstanceProcAddr
    /\ \E name \in Names :
          \E r \in { xrGetInstanceProcAddrInternal(GetInstance(g_instance),
                          override_functions, extensions, runtimeResolves, name) } :
              /\ g_instance' = r.self
              /\ last' = [NoCall EXCEPT !.op = "resolve", !.name = name,
                             !.outcome = "returned",
                             !.result = r.result, !.function = r.function,
                             !.real = RealGetInstanceProcAddr(runtimeResolves, name),
                             !.previous = IF last.op = "resolve" /\ last.name = name
                                          THEN last.function ELSE NULL,
                             !.slotBefore = g_instance.live,
                             !.selfBefore = GetInstance(g_instance)]
              /\ obtained' = IF r.function = LayerWrapper(name) /\ XR_SUCCEEDED(r.result)
                              THEN obtained \cup {name} ELSE obtained
    /\ trace' = << >>
    /\ errorLog' = << >>
    /\ liveObjects' = liveObjects + Constructs(g_instance)
    /\ destroySteps' = << >>
    /\ UNCHANGED << config, generated, environment, pc, finalDestroyInstance,
                    hostCount, stack, creationFailed >>

OverriddenNames ==
    NamesOf(WrappedCommands(override_functions, extensions))
        \ {"xrDestroyInstance", "xrEnumerateInstanceExtensionProperties"}

FinishWrapper(op, name, logic, dispatched, w) ==
    /\ last' = [NoCall EXCEPT !.op = op, !.name = name, !.outcome = w.outcome,
                              !.result = w.result, !.dispatched = dispatched.kind,
                              !.slotBefore = g_instance.live, !.logic = logic]
    /\ trace' = w.trace
    /\ errorLog' = w.errorLog

\* The host calls an overridden entry point whose virtual method is the
\* generated default.
HostCallDefault ==
    /\ Idle
    /\ \E name \in OverriddenNames, realResult \in RuntimeResults :
          LET self == GetInstance(g_instance)
              cmd == CommandNamed(WrappedCommands(override_functions, extensions), name)
              d == DefaultVirtualMethod(self, name, realResult)
          IN  /\ g_instance' = self
              /\ FinishWrapper("call", name, "default", d, Wrapper(cmd, d))
    /\ liveObjects' = liveObjects + Constructs(g_instance)
    /\ destroySteps' = << >>
    /\ UNCHANGED << config, generated, environment, pc, finalDestroyInstance,
                    hostCount, stack, creationFailed, obtained >>

\* The host calls an overridden entry point whose virtual method the layer
\* has replaced with its own logic.
HostCallOverride ==
    /\ Idle
    /\ \E name \in OverriddenNames,
          d \in { Returned(r) : r \in RuntimeResults } \cup { ThrowStd, ThrowOther } :
          LET cmd == CommandNamed(WrappedCommands(override_functions, extensions), name)
          IN  /\ g_instance' = GetInstance(g_instance)
              /\ FinishWrapper("call", name, "override", d, Wrapper(cmd, d))
    /\ liveObjects' = liveObjects + Constructs(g_instance)
    /\ destroySteps' = << >>
    /\ UNCHANGED << config, generated, environment, pc, finalDestroyInstance,
                    hostCount, stack, creationFailed, obtained >>

\* The host calls the layer's xrEnumerateInstanceExtensionProperties wrapper.
MaxCapacity == realExtCount + Len(advertisedExtensions) + MaxSlack

\* The caller's *propertyCountOutput before the call.
InitialCount == 0

HostEnumerate ==
    /\ Idle
    /\ \E layerName \in LayerNames, capacity \in 0..MaxCapacity :
       \E fails \in (IF CallsRuntimeEnumerate(layerName) THEN BOOLEAN ELSE {FALSE}) :
       \E badSlot \in 0..(IF fails THEN 0 ELSE capacity) :
          LET self == GetInstance(g_instance)
              name == "xrEnumerateInstanceExtensionProperties"
              buffer == CallerBuffer(capacity, badSlot)
          IN
          \E r \in { xrEnumerateInstanceExtensionProperties(layerName, capacity,
                          InitialCount, buffer, realExtCount, fails) } :
          \E d \in { IF CallsRuntimeEnumerate(layerName) /\ self.m[name] = NULL
                      THEN Crash ELSE Returned(r.result) } :
          \E w \in { ResultWrapper(name, d) } :
              /\ g_instance' = self
              /\ last' = [NoCall EXCEPT !.op = "enumerate", !.name = name,
                             !.outcome = w.outcome, !.result = w.result,
                             !.dispatched = d.kind, !.layerName = layerName,
                             !.capacity = capacity, !.badSlot = badSlot,
                             !.count = IF d.kind = "crash" THEN InitialCount ELSE r.count,
                             !.properties = IF d.kind = "crash" THEN buffer ELSE r.properties,
                             !.realFails = fails,
                             !.slotBefore = g_instance.live]
              /\ trace' = w.trace
              /\ errorLog' = w.errorLog
              /\ hostCount' = IF d.kind # "crash" /\ capacity = 0 /\ XR_SUCCEEDED(r.result)
                                 /\ layerName = NO_LAYER_NAME
                              THEN r.count ELSE hostCount
    /\ liveObjects' = liveObjects + Constructs(g_instance)
    /\ destroySteps' = << >>
    /\ UNCHANGED << config, generated, environment, pc, finalDestroyInstance, stack,
                    creationFailed, obtained >>

\* The host calls the layer's xrDestroyInstance wrapper: the wrapper's
\* prologue up to the dispatch into OpenXrApi::xrDestroyInstance.
HostDestroy ==
    /\ Idle
    /\ g_instance' = GetInstance(g_instance)
    /\ pc' = 1
    /\ destroySteps' = << >>
    /\ finalDestroyInstance' = NULL
    /\ last' = [NoCall EXCEPT !.op = "destroy", !.name = "xrDestroyInstance",
                              !.outcome = "running", !.slotBefore = g_instance.live]
    /\ trace' = << TraceStart("xrDestroyInstance") >>
    /\ errorLog' = << >>
    /\ liveObjects' = liveObjects + Constructs(g_instance)
    /\ UNCHANGED << config, generated, environment, hostCount, stack, creationFailed,
                    obtained >>

InDestroy(statement) ==
    /\ generated = "generated"
    /\ pc \in 1..Len(DestroyBody)
    /\ DestroyBody[pc] = statement

DestroyStep(statement, reads, function) ==
    [step |-> statement, reads |-> reads, function |-> function,
     slotLive |-> g_instance.live]

\* PFN_xrDestroyInstance finalDestroyInstance = m_xrDestroyInstance;
DestroyCapture ==
    /\ InDestroy("capture")
    /\ finalDestroyInstance' = g_instance.m["xrDestroyInstance"]
    /\ destroySteps' = Append(destroySteps, DestroyStep("capture", "m_xrDestroyInstance",
                                                       g_instance.m["xrDestroyInstance"]))
    /\ pc' = pc + 1
    /\ UNCHANGED << config, generated, environment, g_instance, hostCount, last,
                    trace, errorLog, liveObjects, stack, creationFailed, obtained >>

\* ResetInstance();
DestroyReset ==
    /\ InDestroy("reset")
    /\ g_instance' = ResetInstance(g_instance)
    /\ destroySteps' = Append(destroySteps, DestroyStep("reset", "none", NULL))
    /\ pc' = pc + 1
    /\ liveObjects' = liveObjects - Destroys(g_instance)
    /\ obtained' = {}
    /\ UNCHANGED << config, generated, environment, finalDestroyInstance, hostCount,
                    last, trace, errorLog, stack, creationFailed >>

\* finalDestroyInstance(instance): the real runtime destroys its instance.
DestroyInvoke ==
    /\ InDestroy("invoke")
    /\ LET callee == DestroyCallee(finalDestroyInstance, g_instance)
       IN  /\ destroySteps' = Append(destroySteps,
                                   DestroyStep("invoke", callee.source, callee.function))
           /\ IF callee.function = NULL
              THEN \* a call through nullptr; inside a re-entrant call the
                   \* suspended frames are never resumed
                   /\ pc' = 0
                   /\ last' = [last EXCEPT !.outcome = "crash", !.dispatched = "crash"]
              ELSE /\ pc' = pc + 1
                   /\ \E realResult \in RuntimeResults :
                         last' = [last EXCEPT !.result = realResult,
                                              !.dispatched = "return"]
    /\ UNCHANGED << config, generated, environment, g_instance, finalDestroyInstance,
                    hostCount, trace, errorLog, liveObjects, stack, creationFailed,
                    obtained >>

\* finalDestroyInstance(instance), where the function called calls the
\* layer's xrDestroyInstance wrapper again before it returns: the outer
\* frame is suspended inside the call and the wrapper's prologue runs anew.
DestroyReenter ==
    /\ InDestroy("invoke")
    /\ Len(stack) < MaxReentry
    /\ LET callee == DestroyCallee(finalDestroyInstance, g_instance)
       IN  /\ callee.function # NULL
           /\ stack' = Append(stack,
                   [pc |-> pc, finalDestroyInstance |-> finalDestroyInstance,
                    destroySteps |->
                        Append(destroySteps,
                               DestroyStep("invoke", callee.source, callee.function))])
    /\ g_instance' = GetInstance(g_instance)
    /\ liveObjects' = liveObjects + Constructs(g_instance)
    /\ pc' = 1
    /\ finalDestroyInstance' = NULL
    /\ destroySteps' = << >>
    /\ trace' = Append(trace, TraceStart("xrDestroyInstance"))
    /\ UNCHANGED << config, generated, environment, hostCount, last, errorLog,
                    creationFailed, obtained >>

\* The method returns and the wrapper's epilogue runs.
DestroyReturn ==
    /\ generated = "generated"
    /\ pc = Len(DestroyBody) + 1
    /\ LET w == ResultWrapper("xrDestroyInstance", Returned(last.result))
       IN  \* the epilogue adds to what this call and the calls nested in it
           \* have written since the outermost wrapper's begin event
           /\ trace' = trace \o Tail(w.trace)
           /\ errorLog' = errorLog \o w.errorLog
           /\ IF stack = << >>
              THEN /\ last' = [last EXCEPT !.outcome = w.outcome, !.result = w.result]
                   /\ pc' = 0
                   /\ finalDestroyInstance' = NULL
                   /\ UNCHANGED << destroySteps, stack >>
              ELSE \* a re-entrant call returns into the suspended frame, where
                   \* the real runtime's function then returns its own result
                   LET frame == stack[Len(stack)]
                   IN  /\ stack' = SubSeq(stack, 1, Len(stack) - 1)
                       /\ pc' = frame.pc + 1
                       /\ finalDestroyInstance' = frame.finalDestroyInstance
                       /\ destroySteps' = frame.destroySteps
                       /\ \E realResult \in RuntimeResults :
                             last' = [last EXCEPT !.result = realResult,
                                                  !.dispatched = "return"]
    /\ UNCHANGED << config, generated, environment, g_instance, hostCount, liveObjects,
                    creationFailed, obtained >>

Next ==
    \/ RunGenerator
    \/ HostSetGetInstanceProcAddr
    \/ HostCreateInstance
    \/ HostResolve
    \/ HostCallDefault
    \/ HostCallOverride
    \/ HostEnumerate
    \/ HostDestroy
    \/ DestroyCapture
    \/ DestroyReset
    \/ DestroyInvoke
    \/ DestroyReenter
    \/ DestroyReturn

Spec == Init /\ [][Next]_vars

\* A generated layer (the template configuration) over real runtimes that
\* enumerate every number of extensions up to MaxRealExts.
InitEnumerate ==
    /\ override_functions = {"xrGetSystem"}
    /\ requested_functions = {"xrGetInstanceProperties"}
    /\ extensions = {}
    /\ generated = "generated"
    /\ runtimeResolves = Names
    /\ realExtCount \in 0..MaxRealExts
    /\ g_instance = EmptySlot
    /\ pc = 0
    /\ finalDestroyInstance = NULL
    /\ destroySteps = << >>
    /\ hostCount = -1
    /\ last = NoCall
    /\ trace = << >>
    /\ errorLog = << >>
    /\ liveObjects = 0
    /\ stack = << >>
    /\ creationFailed = FALSE
    /\ obtained = {}

NextEnumerate ==
    \/ HostSetGetInstanceProcAddr
    \/ HostCreateInstance
    \/ HostResolve
    \/ HostCallDefault
    \/ HostCallOverride
    \/ HostEnumerate
    \/ HostDestroy
    \/ DestroyCapture
    \/ DestroyReset
    \/ DestroyInvoke
    \/ DestroyReenter
    \/ DestroyReturn

SpecEnumerate == InitEnumerate /\ [][NextEnumerate]_vars

\* ========================================================================
\* Properties
\* ========================================================================
EmittedNames(exts) == NamesOf(core_commands \o ext_commands(exts))

ResolvedOverride ==
    /\ last.op = "resolve"
    /\ last.name \in override_functions

\* C1 (as amended): for every name of the Override Set that is an emitted
\* command (a core command, or a command of an extension listed in the
\* Extension Set), every resolve through the layer yields the layer's wrapper
\* for that name and not the real runtime's pointer, whatever result the real
\* resolver returned; resolving the same name again yields the same pointer.
C1_OverrideResolvesToWrapper ==
    (ResolvedOverride /\ last.name \in EmittedNames(extensions)) =>
        /\ last.function = LayerWrapper(last.name)
        /\ last.function # last.real.function
        /\ last.previous # NULL => last.function = last.previous

\* C1 witness: an emitted override name resolved twice in a row while the
\* real resolver fails for it.
C1_Witness ==
    /\ ResolvedOverride
    /\ last.name \in EmittedNames(extensions)
    /\ XR_FAILED(last.real.result)
    /\ last.previous = LayerWrapper(last.name)
    /\ last.function = LayerWrapper(last.name)

\* C1 as originally stated: every name of the Override Set resolves to its
\* wrapper. Fails for an extension command whose extension is not listed.
C1_Original ==
    ResolvedOverride => last.function = LayerWrapper(last.name)

\* C2: for every name in requested_functions but not in override_functions,
\* resolve returns the real runtime's pointer unchanged, not a wrapper,
\* before and after xrCreateInstance has populated the bindings.
C2_RequestedPassThrough ==
    (last.op = "resolve" /\ last.name \in requested_functions \ override_functions) =>
        /\ last.function = last.real.function
        /\ last.function # LayerWrapper(last.name)
        /\ last.result = last.real.result

\* C2 witness: after creation stored the real pointer in the binding, resolve
\* of a requested-only name hands out that same real pointer.
C2_Witness ==
    /\ last.op = "resolve"
    /\ last.name \in requested_functions \ override_functions
    /\ g_instance.live
    /\ g_instance.m_applicationName = "app"
    /\ g_instance.m[last.name] = RuntimeFunction(last.name)
    /\ last.function = RuntimeFunction(last.name)

RequiredUnresolved ==
    \E n \in NamesOf(RequiredBindings(requested_functions)) : n \notin runtimeResolves

\* C3: if a core command of requested_functions fails to resolve during
\* creation, creation reports failure and the singleton slot is empty
\* afterwards.
C3_RequiredFailureAbortsCreation ==
    (last.op = "create" /\ RequiredUnresolved) =>
        /\ XR_FAILED(last.result)
        /\ ~g_instance.live

\* C3 witness: a creation that failed on a required binding, started with
\* an object in the slot.
C3_Witness ==
    /\ last.op = "create"
    /\ RequiredUnresolved
    /\ last.slotBefore
    /\ XR_FAILED(last.result)
    /\ ~g_instance.live

WrapperCall == last.op = "call" /\ last.outcome \in {"returned", "escaped"}
OverrideRaised == WrapperCall /\ last.dispatched \in {"throw_std", "throw_other"}
CalledCommand == CommandNamed(WrappedCommands(override_functions, extensions), last.name)

\* C4: no error raised by override logic propagates past a wrapper: whatever
\* is raised inside the dispatched call, a result-returning wrapper returns
\* XR_ERROR_RUNTIME_FAILURE and a void wrapper completes.
C4_NoErrorEscapes ==
    OverrideRaised =>
        /\ last.outcome = "returned"
        /\ CalledCommand.return_type # "None" => last.result = XR_ERROR_RUNTIME_FAILURE

\* C5: in xrDestroyInstance the final destroy pointer is copied into a local
\* while the object is alive, then the slot is reset, and only then the local
\* is called; nothing reads a member of the object at or after the reset.
InstanceMembers == { "m_xrDestroyInstance" }

C5_DestroyOrder ==
    \A i \in 1..Len(destroySteps) :
        /\ destroySteps[i].step = "capture" =>
              /\ destroySteps[i].slotLive
              /\ \A j \in 1..(i - 1) : destroySteps[j].step # "reset"
        /\ destroySteps[i].step = "invoke" =>
              /\ \E j \in 1..(i - 1) : destroySteps[j].step = "reset"
              /\ \E j \in 1..(i - 1) : destroySteps[j].step = "capture"
              /\ ~destroySteps[i].slotLive
        /\ (\E j \in 1..i : destroySteps[j].step = "reset") =>
              destroySteps[i].reads \notin InstanceMembers

\* C5 witness: a destroy call that ran to completion through the real
\* runtime's function, leaving the slot empty.
C5_Witness ==
    /\ last.op = "destroy"
    /\ last.outcome = "returned"
    /\ pc = 0
    /\ Len(destroySteps) = Len(DestroyBody)
    /\ destroySteps[Len(destroySteps)].step = "invoke"
    /\ ~g_instance.live

\* ------------------------------------------------------------------------
\* Extension enumeration (checked under SpecEnumerate)
\* ------------------------------------------------------------------------
Enumerated == last.op = "enumerate" /\ last.outcome = "returned"

AdvertisedProperties(k) ==
    [type |-> XR_TYPE_EXTENSION_PROPERTIES,
     extensionName |-> advertisedExtensions[k][1],
     extensionVersion |-> advertisedExtensions[k][2]]

AdvertisedNames == { advertisedExtensions[k][1] : k \in 1..Len(advertisedExtensions) }

LayerDescriptorsWritten ==
    \E i \in 1..Len(last.properties) : last.properties[i].extensionName \in AdvertisedNames

\* C6: two-call idiom without a filter. A zero-capacity call reports
\* N = real runtime count + number of advertised extensions; a later call
\* with capacity exactly N and well-typed records succeeds, reports the same
\* N, and fills N records: the real runtime's below the real count, the
\* layer's descriptors in list order from the real count up to N - 1.
C6_TwoCallIdiom ==
    (Enumerated /\ last.layerName = NO_LAYER_NAME /\ ~last.realFails) =>
        /\ last.capacity = 0 =>
              /\ last.result = XR_SUCCESS
              /\ last.count = realExtCount + Len(advertisedExtensions)
              /\ hostCount = last.count
        /\ (last.capacity > 0 /\ last.capacity = hostCount /\ last.badSlot = 0) =>
              /\ last.result = XR_SUCCESS
              /\ last.count = hostCount
              /\ Len(last.properties) = hostCount
              /\ \A i \in 1..hostCount :
                    last.properties[i] =
                        IF i <= realExtCount THEN RuntimeProperties(i)
                        ELSE AdvertisedProperties(i - realExtCount)

\* C6 witness: the capacity-supplied call of the idiom, over a runtime that
\* has extensions of its own.
C6_Witness ==
    /\ Enumerated
    /\ last.layerName = NO_LAYER_NAME
    /\ realExtCount > 0
    /\ last.capacity = hostCount
    /\ last.badSlot = 0
    /\ last.result = XR_SUCCESS
    /\ last.properties[hostCount] = AdvertisedProperties(Len(advertisedExtensions))

\* The count of the real runtime that enters the new total: zero when the
\* filter names this layer and the real call is skipped.
RealContribution == IF last.layerName = LAYER_NAME THEN 0 ELSE realExtCount

\* The real call, where made, did not fail for a reason other than size.
RealCallSound ==
    /\ ~last.realFails
    /\ \/ last.layerName = LAYER_NAME
       \/ last.capacity < realExtCount
       \/ last.badSlot = 0
       \/ last.badSlot > realExtCount

\* C7: a call with a non-zero capacity below the new total (real count +
\* number of advertised extensions) fails with XR_ERROR_SIZE_INSUFFICIENT and
\* writes none of the layer's descriptors.
C7_CapacityBelowTotal ==
    (/\ Enumerated
     /\ AppendsLayerExtensions(last.layerName)
     /\ RealCallSound
     /\ last.capacity > 0
     /\ last.capacity < RealContribution + Len(advertisedExtensions)) =>
        /\ last.result = XR_ERROR_SIZE_INSUFFICIENT
        /\ ~LayerDescriptorsWritten

\* ------------------------------------------------------------------------
\* Wrappers
\* ------------------------------------------------------------------------
\* C8 (as amended): when a wrapper catches an error raised by override
\* logic, it writes exactly two log records (the exception message, then
\* the failed result) and returns XR_ERROR_RUNTIME_FAILURE.
C8_CaughtErrorLogs ==
    (WrapperCall /\ last.dispatched = "throw_std") =>
        /\ CalledCommand.return_type # "None"
        /\ errorLog = << LogException(last.name), LogFailed(last.name) >>
        /\ last.result = XR_ERROR_RUNTIME_FAILURE

\* C8 witness: a result-returning wrapper that caught an exception.
C8_Witness ==
    /\ WrapperCall
    /\ last.dispatched = "throw_std"
    /\ CalledCommand.return_type # "None"
    /\ Len(errorLog) = Len(<< LogException(last.name), LogFailed(last.name) >>)
    /\ last.result = XR_ERROR_RUNTIME_FAILURE

\* C8 as originally stated, for the errors a wrapper catches: exactly one
\* log record is written for the call.
C8_Original ==
    (WrapperCall /\ last.dispatched = "throw_std") => Len(errorLog) = 1

Occurrences(seq, e) == Cardinality({ i \in 1..Len(seq) : seq[i] = e })

\* C9: every wrapper call is bracketed by tracing whatever the outcome: one
\* begin event before the dispatch and one matching end event after it, on
\* the normal, the failed-result and the raised-error path.
C9_TraceBrackets ==
    (last.op \in {"call", "enumerate", "destroy"}
        /\ last.outcome \in {"returned", "escaped"}) =>
        /\ Len(trace) >= Len(<< TraceStart(last.name), TraceStop(last.name) >>)
        /\ trace[1] = TraceStart(last.name)
        /\ trace[Len(trace)] = TraceStop(last.name)
        /\ Occurrences(trace, TraceStart(last.name)) = 1
        /\ Occurrences(trace, TraceStop(last.name)) = 1

\* ------------------------------------------------------------------------
\* Configuration
\* ------------------------------------------------------------------------
ConfiguredNames == override_functions \cup requested_functions
StructurallySpecial == { "xrCreateInstance", "xrDestroyInstance", "xrGetInstanceProcAddr" }

\* C10 (as amended): the generator rejects, before generating anything,
\* every configuration that names xrCreateInstance, xrDestroyInstance,
\* xrEnumerateInstanceExtensionProperties or xrGetInstanceProcAddr in either
\* list, and accepts every other configuration; both shipped configurations
\* are accepted.
C10_SanityChecks ==
    /\ generated # "pending" =>
          (generated = "rejected" <=> ConfiguredNames \cap SpecialNames # {})
    /\ SanityChecks(ShippedOverride, ShippedRequested)
    /\ SanityChecks(TemplateOverride, TemplateRequested)

\* C10 witness: a configuration rejected although it names none of the three
\* structurally special names: it requests the extension enumeration.
C10_Witness ==
    /\ generated = "rejected"
    /\ ConfiguredNames \cap StructurallySpecial = {}
    /\ "xrEnumerateInstanceExtensionProperties" \in requested_functions

\* C10 as originally stated: rejected when override_functions names one of
\* the three structurally special names or requested_functions names
\* xrGetInstanceProcAddr; accepted when neither list names any of the three.
C10_Original ==
    generated # "pending" =>
        /\ (override_functions \cap StructurallySpecial # {}
               \/ "xrGetInstanceProcAddr" \in requested_functions) => generated = "rejected"
        /\ ConfiguredNames \cap StructurallySpecial = {} => generated = "generated"


\* ------------------------------------------------------------------------
\* Extension enumeration with a filter (checked under SpecEnumerate)
\* ------------------------------------------------------------------------
\* C11: when the filter names this layer, the real runtime's enumerate
\* function is not called, the call succeeds and reports exactly the static
\* list: the count is the list's size and, given a sufficient capacity of
\* well-typed records, the descriptors are written in list order from
\* position 0.
C11_LayerFilterReportsList ==
    (Enumerated /\ last.layerName = LAYER_NAME) =>
        /\ ~CallsRuntimeEnumerate(last.layerName)
        /\ XR_SUCCEEDED(last.result)
        /\ last.count = Len(advertisedExtensions)
        /\ (last.capacity >= Len(advertisedExtensions) /\ last.badSlot = 0) =>
              \A k \in 1..Len(advertisedExtensions) :
                  last.properties[k] = AdvertisedProperties(k)


\* ------------------------------------------------------------------------
\* Resolve: pass-through and substitution
\* ------------------------------------------------------------------------
Resolved == last.op = "resolve" /\ last.outcome = "returned"

\* The call returned what the real resolver returned and changed no member
\* of the object (bindings and m_xrDestroyInstance included).
PurePassThrough ==
    /\ last.result = last.real.result
    /\ last.function = last.real.function
    /\ g_instance = last.selfBefore

\* C12 (as stated): for any name that is neither xrDestroyInstance nor in
\* the Override Set, resolve is a pure pass-through.
C12_Original ==
    (Resolved /\ last.name \notin override_functions \cup {"xrDestroyInstance"}) =>
        PurePassThrough

\* C12 (as amended): for any name that is neither xrDestroyInstance, nor
\* xrEnumerateInstanceExtensionProperties, nor in the Override Set, resolve
\* returns exactly the real resolver's result code and pointer and leaves
\* every binding and the final-destroy pointer unchanged.
C12_PassThrough ==
    (/\ Resolved
     /\ last.name \notin override_functions \cup
            {"xrDestroyInstance", "xrEnumerateInstanceExtensionProperties"}) =>
        PurePassThrough

\* C12 witness: a name outside both lists resolved by the real runtime on an
\* object that already holds a captured binding.
C12_Witness ==
    /\ Resolved
    /\ last.name \notin override_functions \cup requested_functions \cup
            {"xrDestroyInstance", "xrEnumerateInstanceExtensionProperties"}
    /\ last.function = RuntimeFunction(last.name)
    /\ g_instance = last.selfBefore
    /\ g_instance.m["xrDestroyInstance"] # NULL


\* What resolve does for an overridden name of each portion of the API.
ExtOverrideForcedSuccess ==
    /\ last.result = XR_SUCCESS
    /\ last.function = LayerWrapper(last.name)
CoreOverrideKeepsResult ==
    /\ last.result = last.real.result
    /\ last.function = LayerWrapper(last.name)

\* C13 (as stated): resolving an Override Set name of the extension portion
\* always returns success with the wrapper, even when the real resolver
\* failed; resolving an Override Set name of the core portion substitutes the
\* wrapper and returns the real resolver's result code unchanged.
C13_Original ==
    /\ (Resolved /\ last.name \in override_functions
            /\ last.name \in NamesOf(registry_ext_commands)) => ExtOverrideForcedSuccess
    /\ (Resolved /\ last.name \in override_functions
            /\ last.name \in NamesOf(core_commands)) => CoreOverrideKeepsResult

\* C13 (as amended): the same, for the Override Set names of extensions
\* listed in the Extension Set.
C13_OverrideResultCodes ==
    /\ (Resolved /\ last.name \in override_functions
            /\ last.name \in NamesOf(ext_commands(extensions))) => ExtOverrideForcedSuccess
    /\ (Resolved /\ last.name \in override_functions
            /\ last.name \in NamesOf(core_commands)) => CoreOverrideKeepsResult

\* C13 witness: an overridden extension command the real resolver does not
\* know, resolved to the wrapper with XR_SUCCESS.
C13_Witness ==
    /\ Resolved
    /\ last.name \in override_functions
    /\ last.name \in NamesOf(ext_commands(extensions))
    /\ XR_FAILED(last.real.result)
    /\ last.real.function = NULL
    /\ ExtOverrideForcedSuccess


\* ------------------------------------------------------------------------
\* Creation with optional bindings
\* ------------------------------------------------------------------------
\* The Requested Set split by portion of the API: core names, and names of
\* commands of the listed extensions.
RequestedCore == requested_functions \cap NamesOf(core_commands)
RequestedExtension == requested_functions \cap NamesOf(ext_commands(extensions))
OptionalUnresolved == RequestedExtension \ runtimeResolves

\* The binding of a requested name after creation: the real resolver's
\* pointer, null where the real resolver failed.
BindingAfterCreation(n) ==
    g_instance.m[n] = RealGetInstanceProcAddr(runtimeResolves, n).function

\* C14: a requested extension command that fails to resolve during creation
\* is not fatal: its binding stays null, the other requested bindings are
\* resolved, the application name is captured and creation returns
\* XR_SUCCESS, provided every requested core command resolved.
C14_OptionalFailureNotFatal ==
    (last.op = "create" /\ RequestedCore \subseteq runtimeResolves) =>
        /\ last.result = XR_SUCCESS
        /\ g_instance.live
        /\ g_instance.m_applicationName = "app"
        /\ \A n \in OptionalUnresolved : g_instance.m[n] = NULL
        /\ \A n \in RequestedCore \cup RequestedExtension : BindingAfterCreation(n)

\* C14 witness: a successful creation in which one requested extension
\* command did not resolve and a later one did.
C14_Witness ==
    /\ last.op = "create"
    /\ last.result = XR_SUCCESS
    /\ g_instance.m_applicationName = "app"
    /\ "xrCreateEyeTrackerFB" \in OptionalUnresolved
    /\ g_instance.m["xrCreateEyeTrackerFB"] = NULL
    /\ "xrGetEyeGazesFB" \in RequestedExtension
    /\ g_instance.m["xrGetEyeGazesFB"] = RuntimeFunction("xrGetEyeGazesFB")
    /\ g_instance.m["xrGetSystem"] = RuntimeFunction("xrGetSystem")


\* ------------------------------------------------------------------------
\* Instance lifecycle
\* ------------------------------------------------------------------------
\* Calls of the real runtime's destroy function made so far by the current
\* xrDestroyInstance call, suspended frames included.
RealDestroyCalls(steps) ==
    Cardinality({ i \in 1..Len(steps) :
                    steps[i].step = "invoke" /\ steps[i].function # NULL })
FinalDestroyInvocations ==
    LET sum[k \in 0..Len(stack)] ==
            IF k = 0 THEN 0 ELSE sum[k - 1] + RealDestroyCalls(stack[k].destroySteps)
    IN  sum[Len(stack)] + RealDestroyCalls(destroySteps)

\* C15: over any sequence of host calls at most one OpenXrApi object is live
\* at a time and it is the one in the slot; an object is destroyed once (the
\* objects constructed and not destroyed are exactly the one in the slot, so
\* none is destroyed twice and none is dropped undestroyed), also when the
\* real runtime's destroy function re-enters the layer's xrDestroyInstance,
\* in which case the real function is still entered once only; and when the
\* destruction entry point has returned the slot is empty.
C15_InstanceLifecycle ==
    /\ liveObjects = (IF g_instance.live THEN 1 ELSE 0)
    /\ FinalDestroyInvocations <= 1
    /\ (last.op = "destroy" /\ last.outcome = "returned") => ~g_instance.live

\* C15 witness: the real runtime's destroy function, called for a created
\* instance, has re-entered the layer's xrDestroyInstance, which ran its
\* three statements on a second object: the slot is empty, no object is
\* left, and the real function was entered once.
C15_Witness ==
    /\ last.op = "destroy"
    /\ last.slotBefore
    /\ Len(stack) = 1
    /\ stack[1].finalDestroyInstance = RuntimeFunction("xrDestroyInstance")
    /\ pc = 0
    /\ last.outcome = "crash"
    /\ Len(destroySteps) = Len(DestroyBody)
    /\ FinalDestroyInvocations = 1
    /\ ~g_instance.live
    /\ liveObjects = 0


\* ------------------------------------------------------------------------
\* Extension enumeration: pass-through, slot validation, reported count
\* (checked under SpecEnumerate)
\* ------------------------------------------------------------------------
\* What the real runtime's function returns for the arguments of the last
\* call.
RealOutcome ==
    RealEnumerate(last.capacity, InitialCount,
                  CallerBuffer(last.capacity, last.badSlot), realExtCount, last.realFails)

\* C16: when the filter is present and names something other than this
\* layer, or when the real runtime's enumerate function fails, the call
\* returns exactly the real runtime's result, count and buffer.
C16_PassThroughEnumerate ==
    (/\ Enumerated
     /\ last.layerName # LAYER_NAME
     /\ last.layerName = OTHER_LAYER_NAME \/ XR_FAILED(RealOutcome.result)) =>
        /\ last.result = RealOutcome.result
        /\ last.count = RealOutcome.count
        /\ last.properties = RealOutcome.properties
        /\ ~LayerDescriptorsWritten

\* C16 witness: another layer's name as filter, a capacity with room for the
\* layer's list too, and only the real runtime's records in the buffer.
C16_Witness ==
    /\ Enumerated
    /\ last.layerName = OTHER_LAYER_NAME
    /\ realExtCount > 0
    /\ last.capacity >= realExtCount + Len(advertisedExtensions)
    /\ last.result = XR_SUCCESS
    /\ last.count = realExtCount
    /\ last.properties[realExtCount] = RuntimeProperties(realExtCount)
    /\ ~LayerDescriptorsWritten


\* The destination slots of the layer's descriptors (1-based positions).
DestinationSlots ==
    (RealContribution + 1)..(RealContribution + Len(advertisedExtensions))

\* C17: in a capacity-supplied enumeration with room for the new total, a
\* destination slot beyond the real count whose record type is not
\* XR_TYPE_EXTENSION_PROPERTIES makes the call return
\* XR_ERROR_VALIDATION_FAILURE, with that slot and every later slot left as
\* the caller passed them and the slots before it written; no error is raised.
C17_SlotTypeChecked ==
    (/\ last.op = "enumerate"
     /\ last.dispatched = "return"
     /\ AppendsLayerExtensions(last.layerName)
     /\ ~last.realFails
     /\ last.capacity >= RealContribution + Len(advertisedExtensions)
     /\ last.badSlot \in DestinationSlots) =>
        /\ last.outcome = "returned"
        /\ last.result = XR_ERROR_VALIDATION_FAILURE
        /\ \A i \in last.badSlot..last.capacity :
              last.properties[i] = CallerBuffer(last.capacity, last.badSlot)[i]
        /\ \A i \in DestinationSlots :
              i < last.badSlot =>
                  last.properties[i] = AdvertisedProperties(i - RealContribution)


\* ------------------------------------------------------------------------
\* Calls after a failed creation
\* ------------------------------------------------------------------------
Succeeded == last.outcome = "returned" /\ XR_SUCCEEDED(last.result)

\* C18 (as stated): after a creation attempt that failed on a required
\* binding, no call of an overridden entry point through its wrapper
\* succeeds until a new creation attempt is made.
C18_Original ==
    (creationFailed /\ last.op = "call") => ~Succeeded

\* C18 (as amended): after a creation attempt that failed on a required
\* binding the slot is empty or holds a newly constructed object whose
\* bindings are all null, and until a new creation attempt begins no call of
\* an overridden entry point whose virtual method is the generated default
\* succeeds.
C18_NoForwardAfterFailedCreation ==
    creationFailed =>
        /\ \A n \in Names : g_instance.m[n] = NULL
        /\ ~g_instance.m_xrGetInstanceProcAddr
        /\ last.op = "create" => ~g_instance.live
        /\ (last.op = "call" /\ last.logic = "default") => ~Succeeded

\* C18 witness: a default-forwarded call made after a failed creation.
C18_Witness ==
    /\ creationFailed
    /\ last.op = "call"
    /\ last.logic = "default"
    /\ last.outcome = "crash"
    /\ g_instance.live
    /\ g_instance.m[last.name] = NULL


SizeInsufficientNoFilter ==
    /\ Enumerated
    /\ last.layerName = NO_LAYER_NAME
    /\ last.capacity > 0
    /\ last.result = XR_ERROR_SIZE_INSUFFICIENT

\* C19 (as stated): whenever an enumeration without a filter returns
\* XR_ERROR_SIZE_INSUFFICIENT for a non-zero capacity, the reported count is
\* the full total (real count + number of advertised extensions), also for
\* capacities below the real runtime's own count.
C19_Original ==
    SizeInsufficientNoFilter =>
        last.count = realExtCount + Len(advertisedExtensions)

\* C19 (as amended): the reported count is the full total when the capacity
\* is at least the real runtime's count; for a capacity below the real
\* runtime's count it is the real runtime's count alone.
C19_InsufficientCount ==
    SizeInsufficientNoFilter =>
        last.count = IF last.capacity >= realExtCount
                     THEN realExtCount + Len(advertisedExtensions)
                     ELSE realExtCount

\* C19 witness: a capacity that holds the real runtime's records but not the
\* layer's, answered with the full total.
C19_Witness ==
    /\ SizeInsufficientNoFilter
    /\ realExtCount > 0
    /\ last.capacity >= realExtCount
    /\ last.capacity < realExtCount + Len(advertisedExtensions)
    /\ last.count = realExtCount + Len(advertisedExtensions)


\* ------------------------------------------------------------------------
\* Bindings behind the wrappers
\* ------------------------------------------------------------------------
\* The host calls the wrapper of an overridden name that it got from a
\* successful resolve on the object now in the slot.
InvokedObtained == last.op = "call" /\ last.name \in obtained

RealPointer(n) == RealGetInstanceProcAddr(runtimeResolves, n).function

\* C20 (as stated): whenever the host calls the wrapper of an overridden name
\* obtained through resolve, the binding of that name is non-null and equal
\* to what the real resolver returned, so the generated default virtual
\* method forwards to the real runtime's function.
C20_Original ==
    InvokedObtained =>
        /\ g_instance.m[last.name] # NULL
        /\ g_instance.m[last.name] = RealPointer(last.name)
        /\ last.logic = "default" => last.dispatched = "return"

\* C20 (as amended): the binding of every such name equals what the real
\* resolver returned for it, which is null when the real resolver failed (an
\* overridden extension command forced to XR_SUCCESS); the generated default
\* virtual method forwards to the real runtime's function exactly when that
\* pointer is non-null.
C20_BindingBehindWrapper ==
    /\ \A n \in obtained :
          /\ g_instance.live
          /\ g_instance.m[n] = RealPointer(n)
          /\ n \in runtimeResolves => g_instance.m[n] = RuntimeFunction(n)
    /\ (InvokedObtained /\ last.logic = "default") =>
          (last.dispatched = "return" <=> last.name \in runtimeResolves)

\* C20 witness: after creation, the default virtual method of a name that is
\* only in the Override Set forwards through the binding captured by resolve.
C20_Witness ==
    /\ InvokedObtained
    /\ last.logic = "default"
    /\ last.name \in override_functions \ requested_functions
    /\ g_instance.m_applicationName = "app"
    /\ g_instance.m[last.name] = RuntimeFunction(last.name)
    /\ last.dispatched = "return"


\* ------------------------------------------------------------------------
\* Consistency of the generated pieces
\* ------------------------------------------------------------------------
\* The names for which resolve substitutes a wrapper, the names for which a
\* wrapper is generated, and the number of m_<name> members a name gets.
SubstitutedNames ==
    { n \in Names : ResolveBranch(override_functions, extensions, n) # "none" }
TrampolineNames == NamesOf(WrappedCommands(override_functions, extensions))
ExpectedTrampolines ==
    (override_functions \cup {"xrDestroyInstance", "xrEnumerateInstanceExtensionProperties"})
        \cap EmittedNames(extensions)
BindingSlots(n) ==
    LET methods == VirtualMethods(override_functions, requested_functions, extensions)
    IN  Cardinality({ i \in 1..Len(methods) : methods[i].name = n })

SubstitutionMatchesWrappers ==
    /\ SubstitutedNames = TrampolineNames
    /\ TrampolineNames = ExpectedTrampolines
    /\ Resolved => (last.function = LayerWrapper(last.name) <=> last.name \in TrampolineNames)

\* C21 (as stated): for a configuration that passed the sanity checks, the
\* names resolve substitutes a wrapper for are the names a wrapper is
\* generated for (Override Set, xrDestroyInstance and
\* xrEnumerateInstanceExtensionProperties, restricted to emitted commands),
\* and every name of the Override Set or the Requested Set gets exactly one
\* binding member.
C21_Original ==
    generated = "generated" =>
        /\ SubstitutionMatchesWrappers
        /\ \A n \in override_functions \cup requested_functions : BindingSlots(n) = 1

\* C21 (as amended): the same, with exactly one binding member for every
\* name of either list that is an emitted command, also when it is in both
\* lists, and none for a name that is not an emitted command.
C21_GeneratedPiecesAgree ==
    generated = "generated" =>
        /\ SubstitutionMatchesWrappers
        /\ \A n \in override_functions \cup requested_functions :
              BindingSlots(n) = IF n \in EmittedNames(extensions) THEN 1 ELSE 0

\* C21 witness: a name of both lists resolved to its wrapper, with a single
\* binding member.
C21_Witness ==
    /\ generated = "generated"
    /\ Resolved
    /\ last.name \in override_functions \cap requested_functions
    /\ last.name \in SubstitutedNames \cap TrampolineNames
    /\ last.function = LayerWrapper(last.name)
    /\ BindingSlots(last.name) = 1

============================================================================
